---- MODULE Spec2Model ----
(***************************************************************************)
(* Model of the UnrealCV client scripts of mesh_runtime_placement:         *)
(*   hunyuan3d_ue5_demo.place_in_runtime      (script = "demo")            *)
(*   place_mesh_runtime.main                  (script = "main")            *)
(*   mesh_import_and_place.runtime_placement_with_unrealcv  ("mip")        *)
(*   find_spawn_command.test_commands         (script = "find")            *)
(* The connect-retry loop, the text parsing of the arguments, the spawn    *)
(* fallback chain, the secondary commands and the interactive loop are     *)
(* translated statement by statement.  Python strings are sequences of     *)
(* one-character strings, so that startswith/endswith/split/lower are      *)
(* computed and not assumed.                                               *)
(* Spec runs the four functions against a transport; SpecCli runs          *)
(* hunyuan3d_ue5_demo as a command (parse_arguments, main); SpecMipMain    *)
(* runs mesh_import_and_place.main (import, blueprint, placement);         *)
(* SpecImport runs import_to_ue5 and import_obj_to_uasset in the editor;   *)
(* SpecNormalize and SpecTriple apply the path normalization and the       *)
(* triple parsing to enumerated texts; SpecConnect runs the connect loop   *)
(* of the two placement scripts against transports that come up late.      *)
(***************************************************************************)
EXTENDS Integers, Sequences, FiniteSets, TLC

(***************************************************************************)
(* Bounds of the model (not program constants).                            *)
(***************************************************************************)
\* largest number of not-connected polls of a transport that does come up
MaxN == 2
\* largest number of lines typed at the interactive prompt
MaxLines == 2
\* largest number of Ctrl-C delivered while the connect loop runs
MaxIntr == 1
\* largest value of the wall clock, int(time.time())
MaxClock == 1
\* largest number of requests of test_commands that do not just answer 'error...'
MaxFindEvents == 2
\* largest number of folders of an enumerated blueprint path
MaxDepth == 2
\* largest number of characters of an enumerated asset name
MaxNameLen == 2
\* largest number of characters of an enumerated field of a triple
MaxTokLen == 3
\* largest number of comma-separated fields of an enumerated triple text
MaxFields == 4

(***************************************************************************)
(* Program constants.                                                      *)
(***************************************************************************)
\* timeout = 30 (the number of connect attempts)
timeout == 30

(***************************************************************************)
(* Python string primitives over sequences of characters.                  *)
(***************************************************************************)
\* str.startswith(p)
StartsWith(s, p) ==
    /\ Len(s) >= Len(p)
    /\ SubSeq(s, 1, Len(p)) = p

\* str.endswith(p)
EndsWith(s, p) ==
    /\ Len(s) >= Len(p)
    /\ SubSeq(s, Len(s) - Len(p) + 1, Len(s)) = p

\* c in s
Contains(s, c) == \E k \in 1..Len(s) : s[k] = c

\* str.lower() on one character
LowerChar(c) ==
    CASE c = "E" -> "e"
      [] c = "X" -> "x"
      [] c = "I" -> "i"
      [] c = "T" -> "t"
      [] c = "V" -> "v"
      [] c = "G" -> "g"
      [] c = "Y" -> "y"
      [] c = "N" -> "n"
      [] c = "A" -> "a"
      [] OTHER -> c

\* str.lower()
Lower(s) == [k \in 1..Len(s) |-> LowerChar(s[k])]

\* position of the first occurrence of c in s at or after k, Len(s)+1 if none
RECURSIVE FindFrom(_, _, _)
FindFrom(s, c, k) ==
    IF k > Len(s) THEN Len(s) + 1
    ELSE IF s[k] = c THEN k
    ELSE FindFrom(s, c, k + 1)

\* str.split(c): the list of the fields of s separated by c
RECURSIVE Split(_, _)
Split(s, c) ==
    LET p == FindFrom(s, c, 1)
    IN  IF p > Len(s) THEN <<s>>
        ELSE <<SubSeq(s, 1, p - 1)>> \o Split(SubSeq(s, p + 1, Len(s)), c)

Digits == {"0", "1", "2", "3", "4", "5", "6", "7", "8", "9"}

DigitVal(c) ==
    CASE c = "0" -> 0 [] c = "1" -> 1 [] c = "2" -> 2 [] c = "3" -> 3
      [] c = "4" -> 4 [] c = "5" -> 5 [] c = "6" -> 6 [] c = "7" -> 7
      [] c = "8" -> 8 [] c = "9" -> 9

\* str.strip(), for the blank
RECURSIVE Strip(_)
Strip(t) ==
    IF Len(t) > 0 /\ t[1] = " " THEN Strip(Tail(t))
    ELSE IF Len(t) > 0 /\ t[Len(t)] = " " THEN Strip(SubSeq(t, 1, Len(t) - 1))
    ELSE t

\* a float literal without its sign
Unsigned(u) == IF Len(u) > 0 /\ u[1] \in {"-", "+"} THEN Tail(u) ELSE u

S_nan == <<"n", "a", "n">>

\* digits with at most one '.', one digit at least: "5", "0.5", ".5", "5."
IsDecimal(v) ==
    /\ \A k \in 1..Len(v) : v[k] \in Digits \cup {"."}
    /\ Cardinality({k \in 1..Len(v) : v[k] = "."}) <= 1
    /\ \E k \in 1..Len(v) : v[k] \in Digits

\* float(t) succeeds: blanks around the literal are dropped, a sign may
\* lead, and the literal is a decimal or the word nan in any letter case
\* (exponents, '_' and inf are written with characters not enumerated)
IsFloat(t) ==
    LET v == Unsigned(Strip(t))
    IN  Lower(v) = S_nan \/ IsDecimal(v)

\* the number written by a text of digits
RECURSIVE DecimalInt(_)
DecimalInt(d) ==
    IF Len(d) = 0 THEN 0
    ELSE 10 * DecimalInt(SubSeq(d, 1, Len(d) - 1)) + DigitVal(d[Len(d)])

\* m / 10^e with the trailing zeros of the fraction dropped
RECURSIVE Canon(_, _)
Canon(m, e) ==
    IF e > 0 /\ m % 10 = 0 THEN Canon(m \div 10, e - 1)
    ELSE [nan |-> FALSE, m |-> m, e |-> e]

IsDigit(c) == c \in Digits

\* float(t): the value m / 10^e, or nan.  The literals enumerated have few
\* digits, which binary64 reads and prints back exactly, so the value is
\* kept as the decimal
ToFloat(t) ==
    LET u == Strip(t)
        v == Unsigned(u)
        dot == FindFrom(v, ".", 1)
        mag == Canon(DecimalInt(SelectSeq(v, IsDigit)),
                     IF dot > Len(v) THEN 0 ELSE Len(v) - dot)
    IN  IF Lower(v) = S_nan THEN [nan |-> TRUE, m |-> 0, e |-> 0]
        ELSE IF u[1] = "-" THEN [mag EXCEPT !.m = 0 - @]
        ELSE mag

\* a, b, c = map(float, s.split(',')) does not raise ValueError
TripleOk(s) ==
    LET f == Split(s, ",")
    IN  /\ Len(f) = 3
        /\ \A k \in 1..3 : IsFloat(f[k])

\* a, b, c = map(float, s.split(','))
ParseTriple(s) ==
    LET f == Split(s, ",")
    IN  <<ToFloat(f[1]), ToFloat(f[2]), ToFloat(f[3])>>

(***************************************************************************)
(* String literals of the scripts.                                         *)
(***************************************************************************)
S_error == <<"e", "r", "r", "o", "r">>
S_exit == <<"e", "x", "i", "t">>
S_C == <<"_", "C">>
S_rot0 == <<"0", ",", "0", ",", "0">>
S_scale1 == <<"1", ",", "1", ",", "1">>

(***************************************************************************)
(* Inputs enumerated by the model.                                         *)
(***************************************************************************)
Scripts == {"demo", "main", "mip", "find"}

\* the scripts that take the placement arguments
PlaceScripts == {"demo", "main"}

\* --blueprint_path / asset_path: without and with the class suffix
AssetPaths ==
    { <<"/", "G", "/", "B">>,
      <<"/", "G", "/", "B", ".", "B", "_", "C">> }

Locations == { <<"0", ",", "0", ",", "1", "0", "0">> }

\* the identity, a rotation, and one malformed triple
Rotations == { S_rot0, <<"0", ",", "9", "0", ",", "0">>, <<"0", ",", "9", "0">> }

Scales == { S_scale1, <<"2", ",", "2", ",", "2">> }

\* responses of the engine to a request
R_err == <<"e", "r", "r", "o", "r", ":", "x">>
R_ok == <<"o", "k", ":", "i", "d">>
Responses == { R_err, R_ok }

\* lines typed at the interactive prompt
L_EXIT == <<"E", "X", "I", "T">>
L_vget == <<"v", "g", "e", "t">>
L_VGET == <<"V", "G", "E", "T">>
Lines == { S_exit, L_EXIT, L_vget, L_VGET }

\* mesh_import_and_place: the defaults of --output_asset_path and --blueprint_name
S_GameMeshes ==
    <<"/", "G", "a", "m", "e", "/", "M", "e", "s", "h", "e", "s">>
S_MeshBP == <<"M", "e", "s", "h", "B", "P">>

\* find_spawn_command: blueprint_path and location
S_FindBlueprint ==
    <<"/", "G", "a", "m", "e", "/", "L", "L", "M", "G", "e", "n", "e", "r",
      "a", "t", "e", "d", "/", "B", "l", "u", "e", "p", "r", "i", "n", "t",
      "s", "/", "H", "u", "n", "Y", "u", "a", "n", "M", "e", "s", "h", "B",
      "P", ".", "H", "u", "n", "Y", "u", "a", "n", "M", "e", "s", "h", "B",
      "P", "_", "C">>
S_FindLocation == <<"0", ",", "0", ",", "1", "0", "0">>

\* the transport never reports connected: more polls than the loop can make
NeverUp == 2 * timeout + 1

VARIABLES
    script,        \* which script runs
    asset_path,    \* asset_path / args.blueprint_path / args.output_asset_path
    blueprint_name, \* args.blueprint_name (mesh_import_and_place)
    location,      \* location / args.location
    rotation,      \* rotation / args.rotation
    scale,         \* scale / args.scale
    upAfter,       \* transport: isconnected() is False for the first upAfter polls
    pc,            \* position in the script
    i,             \* loop variable of "for i in range(timeout)"
    connected,     \* local flag connected
    polls,         \* number of client.isconnected() calls made
    connectCalls,  \* number of client.connect() calls made
    connectFaults, \* number of client.connect() calls that raised
    intr,          \* number of KeyboardInterrupts delivered during the connect loop
    intrAt,        \* where the last one was delivered
    okAttempt,     \* the attempt (i+1) on which connected was set, 0 if never
    now,           \* int(time.time())
    reqs,          \* the client.request calls made: <<[cmd, resp]>>
    object_name,   \* object_name / cube_name / object_id of the follow-up commands
    typed,         \* the lines returned by input()
    loopState,     \* interactive loop: "no", "in", then how it was left
    disconnects,   \* number of client.disconnect() calls made
    result,        \* "running", then the value returned, "raised" or "killed"
    args,          \* the arguments of the entry point (argparse namespace)
    bp_path,       \* bp_path after the normalization of the blueprint path
    bp_again,      \* the normalization applied to bp_path once more
    parsed,        \* what "a, b, c = map(float, text.split(','))" produced
    engine,        \* the editor side: the assets that exist, the steps attempted
    retval         \* the value returned by import_to_ue5 / import_obj_to_uasset

vars == <<script, asset_path, blueprint_name, location, rotation, scale, upAfter, pc, i,
          connected, polls, connectCalls, connectFaults, intr, intrAt,
          okAttempt, now, reqs, object_name, typed, loopState, disconnects, result,
          args, bp_path, bp_again, parsed, engine, retval>>

inputs == <<script, asset_path, blueprint_name, location, rotation, scale, upAfter>>
loopVars == <<i, connected, polls, connectCalls, connectFaults, intr, intrAt,
              okAttempt>>
placeVars == <<now, reqs, object_name, typed, loopState, disconnects>>
entryVars == <<args, bp_path, bp_again, parsed, engine, retval>>

\* client.isconnected() of the transport, before the poll is counted
isconnected == polls >= upAfter

\* the arguments and the transport of one run.  The connect loop is the
\* same code in the four scripts and does not read the arguments, so the
\* transports are enumerated in full with the script whose body is the
\* shortest (mesh_import_and_place), and the arguments in full with a
\* transport that comes up after the first connect(); every script is also
\* run against a transport that never comes up.  mesh_import_and_place has
\* no rotation and scale and test_commands has no argument at all: the
\* variables they do not have keep one value
Init ==
    /\ \/ /\ script \in PlaceScripts
          /\ asset_path \in AssetPaths
          /\ blueprint_name = <<>>
          /\ location \in Locations
          /\ rotation \in Rotations
          /\ scale \in Scales
          /\ upAfter = 1
       \/ /\ script \in PlaceScripts
          /\ asset_path = <<"/", "G", "/", "B">>
          /\ blueprint_name = <<>>
          /\ location \in Locations
          /\ rotation = S_rot0
          /\ scale = S_scale1
          /\ upAfter = NeverUp
       \/ /\ script = "mip"
          /\ asset_path = S_GameMeshes
          /\ blueprint_name = S_MeshBP
          /\ location \in Locations
          /\ rotation = S_rot0
          /\ scale = S_scale1
          /\ upAfter \in (0..MaxN) \cup {timeout - 1, timeout, NeverUp}
       \/ /\ script = "find"
          /\ asset_path = S_FindBlueprint
          /\ blueprint_name = <<>>
          /\ location = S_FindLocation
          /\ rotation = S_rot0
          /\ scale = S_scale1
          /\ upAfter \in {1, NeverUp}
    /\ pc = "poll"
    /\ i = 0
    /\ connected = FALSE
    /\ polls = 0
    /\ connectCalls = 0
    /\ connectFaults = 0
    /\ intr = 0
    /\ intrAt = "none"
    /\ okAttempt = 0
    /\ now = 0
    /\ reqs = <<>>
    /\ object_name = <<>>
    /\ typed = <<>>
    /\ loopState = "no"
    /\ disconnects = 0
    /\ result = "running"
    /\ args = <<>>
    /\ bp_path = <<>>
    /\ bp_again = <<>>
    /\ parsed = <<>>
    /\ engine = <<>>
    /\ retval = <<>>

(***************************************************************************)
(* The connect-retry loop: for i in range(timeout): ...                    *)
(***************************************************************************)
\* if client.isconnected(): connected = True; break
Poll ==
    /\ pc = "poll"
    /\ polls' = polls + 1
    /\ IF isconnected
       THEN /\ connected' = TRUE
            /\ okAttempt' = i + 1
            /\ pc' = "check"
       ELSE /\ pc' = "connect"
            /\ UNCHANGED <<connected, okAttempt>>
    /\ UNCHANGED <<inputs, entryVars, i, connectCalls, connectFaults, intr, intrAt,
                   placeVars, result>>

\* KeyboardInterrupt while polling, outside the try: it leaves the function
PollInterrupt ==
    /\ pc = "poll"
    /\ intr < MaxIntr
    /\ intr' = intr + 1
    /\ intrAt' = "poll"
    /\ pc' = "end"
    /\ result' = "killed"
    /\ UNCHANGED <<inputs, entryVars, i, connected, polls, connectCalls, connectFaults,
                   okAttempt, placeVars>>

\* Connect whose fault is not caught: the exception leaves the function
Connect_Propagates ==
    /\ pc = "connect"
    /\ connectCalls' = connectCalls + 1
    /\ \E outcome \in {"return", "raise", "interrupt"} :
         /\ outcome = "interrupt" => intr < MaxIntr
         /\ intr' = IF outcome = "interrupt" THEN intr + 1 ELSE intr
         /\ intrAt' = IF outcome = "interrupt" THEN "connect" ELSE intrAt
         /\ connectFaults' = IF outcome = "return" THEN connectFaults
                             ELSE connectFaults + 1
         /\ pc' = IF outcome = "return" THEN "poll2" ELSE "end"
         /\ result' = IF outcome = "return" THEN result ELSE "raised"
    /\ UNCHANGED <<inputs, entryVars, i, connected, polls, okAttempt, placeVars>>

\* try: client.connect() ... except: pass
\* the call returns, raises a fault, or is interrupted; the bare except
\* catches the fault and the KeyboardInterrupt alike
Connect ==
    /\ pc = "connect"
    /\ connectCalls' = connectCalls + 1
    /\ \E outcome \in {"return", "raise", "interrupt"} :
         /\ outcome = "interrupt" => intr < MaxIntr
         /\ intr' = IF outcome = "interrupt" THEN intr + 1 ELSE intr
         /\ intrAt' = IF outcome = "interrupt" THEN "connect" ELSE intrAt
         /\ connectFaults' = IF outcome = "return" THEN connectFaults
                             ELSE connectFaults + 1
         /\ pc' = IF outcome = "return" THEN "poll2" ELSE "wait"
    /\ UNCHANGED <<inputs, entryVars, i, connected, polls, okAttempt, placeVars, result>>

\* Poll2 without the break: the flag is set and the loop goes on
Poll2_NoBreak ==
    /\ pc = "poll2"
    /\ polls' = polls + 1
    /\ IF isconnected
       THEN /\ connected' = TRUE
            /\ okAttempt' = i + 1
            /\ pc' = "wait"
       ELSE /\ pc' = "wait"
            /\ UNCHANGED <<connected, okAttempt>>
    /\ UNCHANGED <<inputs, entryVars, i, connectCalls, connectFaults, intr, intrAt,
                   placeVars, result>>

\* inside the try: if client.isconnected(): connected = True; break
Poll2 ==
    /\ pc = "poll2"
    /\ polls' = polls + 1
    /\ IF isconnected
       THEN /\ connected' = TRUE
            /\ okAttempt' = i + 1
            /\ pc' = "check"
       ELSE /\ pc' = "wait"
            /\ UNCHANGED <<connected, okAttempt>>
    /\ UNCHANGED <<inputs, entryVars, i, connectCalls, connectFaults, intr, intrAt,
                   placeVars, result>>

\* Wait with range(timeout + 1)
Wait_OneMore ==
    /\ pc = "wait"
    /\ i' = i + 1
    /\ pc' = IF i + 1 < timeout + 1 THEN "poll" ELSE "check"
    /\ UNCHANGED <<inputs, entryVars, connected, polls, connectCalls, connectFaults, intr,
                   intrAt, okAttempt, placeVars, result>>

\* print(...); time.sleep(1); next i
Wait ==
    /\ pc = "wait"
    /\ i' = i + 1
    /\ pc' = IF i + 1 < timeout THEN "poll" ELSE "check"
    /\ UNCHANGED <<inputs, entryVars, connected, polls, connectCalls, connectFaults, intr,
                   intrAt, okAttempt, placeVars, result>>

\* KeyboardInterrupt during time.sleep(1), outside the try
WaitInterrupt ==
    /\ pc = "wait"
    /\ intr < MaxIntr
    /\ intr' = intr + 1
    /\ intrAt' = "sleep"
    /\ pc' = "end"
    /\ result' = "killed"
    /\ UNCHANGED <<inputs, entryVars, i, connected, polls, connectCalls, connectFaults,
                   okAttempt, placeVars>>

\* Check without the return of the failure branch
Check_FallsThrough ==
    /\ pc = "check"
    /\ pc' = CASE script \in PlaceScripts -> "parse"
               [] script = "mip" -> "mipparse"
               [] script = "find" -> "find"
    /\ UNCHANGED <<inputs, entryVars, loopVars, placeVars, result>>

\* if not connected: print(...); return False (demo, mip) / return (main, find)
Check ==
    /\ pc = "check"
    /\ IF connected
       THEN /\ pc' = CASE script \in PlaceScripts -> "parse"
                       [] script = "mip" -> "mipparse"
                       [] script = "find" -> "find"
            /\ UNCHANGED result
       ELSE /\ pc' = "end"
            /\ result' = IF script \in {"demo", "mip"} THEN "False" ELSE "None"
    /\ UNCHANGED <<inputs, entryVars, loopVars, placeVars>>

ConnectLoop ==
    \/ Poll
    \/ PollInterrupt
    \/ Connect
    \/ Poll2
    \/ Wait
    \/ WaitInterrupt
    \/ Check

(***************************************************************************)
(* Argument parsing and command formatting.                                *)
(***************************************************************************)
\* x, y, z = map(float, location.split(',')), then rotation, then scale;
\* a malformed triple raises ValueError, which nothing catches
Parse ==
    /\ pc = "parse"
    /\ IF TripleOk(location) /\ TripleOk(rotation) /\ TripleOk(scale)
       THEN /\ pc' = IF script = "demo" THEN "spawn1" ELSE "mainspawn"
            /\ UNCHANGED result
       ELSE /\ pc' = "end"
            /\ result' = "raised"
    /\ UNCHANGED <<inputs, entryVars, loopVars, placeVars>>

\* bp_path.split('/')[-1]
BaseName(p) == LET f == Split(p, "/") IN f[Len(f)]

\* DemoBpPath without the endswith('_C') test
DemoBpPath_Always(p) == p \o <<".">> \o BaseName(p) \o S_C

\* hunyuan3d_ue5_demo: bp_path
DemoBpPath(p) ==
    IF ~EndsWith(p, S_C)
    THEN p \o <<".">> \o BaseName(p) \o S_C
    ELSE p

\* place_mesh_runtime: bp_path
MainBpPath(p) ==
    IF ~EndsWith(p, S_C)
    THEN IF ~Contains(p, ".")
         THEN p \o <<".">> \o BaseName(p) \o S_C
         ELSE p \o S_C
    ELSE p

\* hunyuan3d_ue5_demo: alt_bp_path
AltBpPath(p) ==
    IF EndsWith(p, S_C)
    THEN SubSeq(p, 1, Len(p) - 2)
    ELSE p

\* f"SpawnedObject_{int(time.time())}"
SpawnedName(t) == <<"SpawnedObject_", ToString(t)>>

\* f"PlaceholderCube_{int(time.time())}"
PlaceholderName(t) == <<"PlaceholderCube_", ToString(t)>>

\* f'vset /objects/spawn {path} {name}'
SpawnCmd(path, name) ==
    [verb |-> "vset /objects/spawn", target |-> path, name |-> name, xyz |-> <<>>,
     text |-> <<>>]

\* f'vset /objects/spawn {bp_path} {x} {y} {z}'
SpawnAtCmd(path, xyz) ==
    [verb |-> "vset /objects/spawn", target |-> path, name |-> <<>>, xyz |-> xyz,
     text |-> <<>>]

\* f'vrun "SpawnActor {bp_path} Location=({x},{y},{z})"'
VrunCmd(path, xyz) ==
    [verb |-> "vrun SpawnActor", target |-> path, name |-> <<>>, xyz |-> xyz,
     text |-> <<>>]

\* f'vset /object/{object_name}/<what> {a} {b} {c}'
ObjectCmd(what, obj, xyz) ==
    [verb |-> what, target |-> obj, name |-> <<>>, xyz |-> xyz, text |-> <<>>]

\* the line typed by the user, as it is
RawCmd(line) ==
    [verb |-> "raw", target |-> line, name |-> <<>>, xyz |-> <<>>, text |-> <<>>]

\* response.startswith('error')
IsError(r) == StartsWith(r, S_error)

\* one completed client.request(cmd) call that returned r
Req(cmd, r) == [cmd |-> cmd, resp |-> r, out |-> "return"]

\* the clock after a blocking call
Ticks(t) == {u \in t..(t + 1) : u <= MaxClock}

(***************************************************************************)
(* hunyuan3d_ue5_demo.place_in_runtime: the spawn candidates.              *)
(***************************************************************************)
\* Method 1: spawn the normalized blueprint path
Spawn1 ==
    /\ pc = "spawn1"
    /\ \E r \in Responses, t \in Ticks(now) :
         /\ reqs' = Append(reqs, Req(SpawnCmd(DemoBpPath(asset_path), SpawnedName(now)), r))
         /\ now' = t
         /\ IF ~IsError(r)
            THEN /\ object_name' = SpawnedName(t)
                 /\ pc' = "loc1"
            ELSE /\ pc' = "spawn2"
                 /\ UNCHANGED object_name
    /\ UNCHANGED <<inputs, entryVars, loopVars, typed, loopState, disconnects, result>>

\* Loc1 that gives up the placement when the location cannot be set
Loc1_Abort ==
    /\ pc = "loc1"
    /\ \E r \in Responses :
         /\ reqs' = Append(reqs, Req(ObjectCmd("location", object_name, ParseTriple(location)), r))
         /\ IF IsError(r)
            THEN /\ disconnects' = disconnects + 1
                 /\ result' = "False"
                 /\ pc' = "end"
            ELSE /\ pc' = "rot"
                 /\ UNCHANGED <<disconnects, result>>
    /\ UNCHANGED <<inputs, entryVars, loopVars, now, object_name, typed, loopState>>

\* loc_cmd after method 1
Loc1 ==
    /\ pc = "loc1"
    /\ \E r \in Responses :
         reqs' = Append(reqs, Req(ObjectCmd("location", object_name, ParseTriple(location)), r))
    /\ pc' = "rot"
    /\ UNCHANGED <<inputs, entryVars, loopVars, now, object_name, typed, loopState,
                   disconnects, result>>

\* Method 2: the alternative path; on success set the location,
\* disconnect and return True
Spawn2 ==
    /\ pc = "spawn2"
    /\ \E r \in Responses, t \in Ticks(now) :
         /\ reqs' = Append(reqs, Req(SpawnCmd(AltBpPath(asset_path), SpawnedName(now)), r))
         /\ now' = t
         /\ IF ~IsError(r)
            THEN /\ object_name' = SpawnedName(t)
                 /\ pc' = "loc2"
            ELSE /\ pc' = "spawn3"
                 /\ UNCHANGED object_name
    /\ UNCHANGED <<inputs, entryVars, loopVars, typed, loopState, disconnects, result>>

\* Loc2 that returns without releasing the session
Loc2_NoDisconnect ==
    /\ pc = "loc2"
    /\ \E r \in Responses :
         reqs' = Append(reqs, Req(ObjectCmd("location", object_name, ParseTriple(location)), r))
    /\ result' = "True"
    /\ pc' = "end"
    /\ UNCHANGED <<inputs, entryVars, loopVars, now, object_name, typed, loopState,
                   disconnects>>

Loc2 ==
    /\ pc = "loc2"
    /\ \E r \in Responses :
         reqs' = Append(reqs, Req(ObjectCmd("location", object_name, ParseTriple(location)), r))
    /\ disconnects' = disconnects + 1
    /\ result' = "True"
    /\ pc' = "end"
    /\ UNCHANGED <<inputs, entryVars, loopVars, now, object_name, typed, loopState>>

\* Spawn3 without the return on success
Spawn3_FallThrough ==
    /\ pc = "spawn3"
    /\ \E r \in Responses :
         reqs' = Append(reqs, Req(VrunCmd(DemoBpPath(asset_path), ParseTriple(location)), r))
    /\ pc' = "diag1"
    /\ UNCHANGED <<inputs, entryVars, loopVars, now, object_name, typed, loopState,
                   disconnects, result>>

\* Method 3: the console command; on success disconnect and return True
Spawn3 ==
    /\ pc = "spawn3"
    /\ \E r \in Responses :
         /\ reqs' = Append(reqs, Req(VrunCmd(DemoBpPath(asset_path), ParseTriple(location)), r))
         /\ IF ~IsError(r)
            THEN /\ disconnects' = disconnects + 1
                 /\ result' = "True"
                 /\ pc' = "end"
            ELSE /\ pc' = "diag1"
                 /\ UNCHANGED <<disconnects, result>>
    /\ UNCHANGED <<inputs, entryVars, loopVars, now, object_name, typed, loopState>>

\* print(f"  Method 1 response: {client.request(... bp_path TestObject)}")
Diag1 ==
    /\ pc = "diag1"
    /\ \E r \in Responses :
         reqs' = Append(reqs, Req(SpawnCmd(DemoBpPath(asset_path), <<"TestObject">>), r))
    /\ pc' = "diag2"
    /\ UNCHANGED <<inputs, entryVars, loopVars, now, object_name, typed, loopState,
                   disconnects, result>>

\* print(f"  Method 2 response: {client.request(... alt_bp_path TestObject)}")
Diag2 ==
    /\ pc = "diag2"
    /\ \E r \in Responses :
         reqs' = Append(reqs, Req(SpawnCmd(AltBpPath(asset_path), <<"TestObject">>), r))
    /\ pc' = "spawn4"
    /\ UNCHANGED <<inputs, entryVars, loopVars, now, object_name, typed, loopState,
                   disconnects, result>>

\* Method 4: the placeholder cube; when it fails too, disconnect and
\* return False
Spawn4 ==
    /\ pc = "spawn4"
    /\ \E r \in Responses, t \in Ticks(now) :
         /\ reqs' = Append(reqs, Req(SpawnCmd(<<"StaticMeshActor">>, PlaceholderName(now)), r))
         /\ now' = t
         /\ IF ~IsError(r)
            THEN /\ object_name' = PlaceholderName(t)
                 /\ pc' = "loc4"
                 /\ UNCHANGED <<disconnects, result>>
            ELSE /\ disconnects' = disconnects + 1
                 /\ result' = "False"
                 /\ pc' = "end"
                 /\ UNCHANGED object_name
    /\ UNCHANGED <<inputs, entryVars, loopVars, typed, loopState>>

Loc4 ==
    /\ pc = "loc4"
    /\ \E r \in Responses :
         reqs' = Append(reqs, Req(ObjectCmd("location", object_name, ParseTriple(location)), r))
    /\ disconnects' = disconnects + 1
    /\ result' = "True"
    /\ pc' = "end"
    /\ UNCHANGED <<inputs, entryVars, loopVars, now, object_name, typed, loopState>>

(***************************************************************************)
(* place_mesh_runtime.main: the single spawn command.                      *)
(***************************************************************************)
\* MainSpawn that goes on after an error response
MainSpawn_NotTerminal ==
    /\ pc = "mainspawn"
    /\ \E r \in Responses :
         /\ reqs' = Append(reqs, Req(SpawnAtCmd(MainBpPath(asset_path), ParseTriple(location)), r))
         /\ object_name' = r
         /\ pc' = "rot"
    /\ UNCHANGED <<inputs, entryVars, loopVars, now, typed, loopState, disconnects, result>>

MainSpawn ==
    /\ pc = "mainspawn"
    /\ \E r \in Responses :
         /\ reqs' = Append(reqs, Req(SpawnAtCmd(MainBpPath(asset_path), ParseTriple(location)), r))
         /\ IF IsError(r)
            THEN /\ disconnects' = disconnects + 1
                 /\ result' = "None"
                 /\ pc' = "end"
                 /\ UNCHANGED object_name
            ELSE /\ object_name' = r
                 /\ pc' = "rot"
                 /\ UNCHANGED <<disconnects, result>>
    /\ UNCHANGED <<inputs, entryVars, loopVars, now, typed, loopState>>

(***************************************************************************)
(* The secondary commands (both scripts).                                  *)
(***************************************************************************)
\* if rotation != '0,0,0': client.request(rot_cmd)
Rot ==
    /\ pc = "rot"
    /\ IF rotation # S_rot0
       THEN \E r \in Responses :
              reqs' = Append(reqs, Req(ObjectCmd("rotation", object_name, ParseTriple(rotation)), r))
       ELSE UNCHANGED reqs
    /\ pc' = "scale"
    /\ UNCHANGED <<inputs, entryVars, loopVars, now, object_name, typed, loopState,
                   disconnects, result>>

\* if scale != '1,1,1': client.request(scale_cmd); then the try: is entered
Scale ==
    /\ pc = "scale"
    /\ IF scale # S_scale1
       THEN \E r \in Responses :
              reqs' = Append(reqs, Req(ObjectCmd("scale", object_name, ParseTriple(scale)), r))
       ELSE UNCHANGED reqs
    /\ pc' = "input"
    /\ loopState' = "in"
    /\ UNCHANGED <<inputs, entryVars, loopVars, now, object_name, typed, disconnects, result>>

(***************************************************************************)
(* The interactive loop (both scripts).                                    *)
(***************************************************************************)
\* command = input(...); if command.lower() == 'exit': break
Input ==
    /\ pc = "input"
    /\ \E line \in Lines :
         /\ Len(typed) < MaxLines \/ Lower(line) = S_exit
         /\ typed' = Append(typed, line)
         /\ IF Lower(line) = S_exit
            THEN /\ pc' = "finally"
                 /\ loopState' = "exit"
            ELSE /\ pc' = "request"
                 /\ UNCHANGED loopState
    /\ UNCHANGED <<inputs, entryVars, loopVars, now, reqs, object_name, disconnects, result>>

\* input() raises: KeyboardInterrupt is caught by the except clause,
\* anything else (EOFError) passes through the finally clause
InputRaises ==
    /\ pc = "input"
    /\ \E how \in {"kbd", "exc"} : loopState' = how
    /\ pc' = "finally"
    /\ UNCHANGED <<inputs, entryVars, loopVars, now, reqs, object_name, typed, disconnects, result>>

\* Request that sends the lower-cased line
Request_Lowered ==
    /\ pc = "request"
    /\ \E r \in Responses :
         reqs' = Append(reqs, Req(RawCmd(Lower(typed[Len(typed)])), r))
    /\ pc' = "input"
    /\ UNCHANGED <<inputs, entryVars, loopVars, now, object_name, typed, loopState,
                   disconnects, result>>

\* response = client.request(command); print(...)
Request ==
    /\ pc = "request"
    /\ \E r \in Responses :
         reqs' = Append(reqs, Req(RawCmd(typed[Len(typed)]), r))
    /\ pc' = "input"
    /\ UNCHANGED <<inputs, entryVars, loopVars, now, object_name, typed, loopState,
                   disconnects, result>>

\* client.request(command) raises after the command was handed over
RequestRaises ==
    /\ pc = "request"
    /\ \E how \in {"kbd", "exc"} :
         /\ loopState' = how
         /\ reqs' = Append(reqs, [cmd |-> RawCmd(typed[Len(typed)]), resp |-> <<>>,
                                  out |-> how])
    /\ pc' = "finally"
    /\ UNCHANGED <<inputs, entryVars, loopVars, now, object_name, typed, disconnects, result>>

\* Finally with the disconnect in the except KeyboardInterrupt clause
Finally_InExcept ==
    /\ pc = "finally"
    /\ disconnects' = IF loopState = "kbd" THEN disconnects + 1 ELSE disconnects
    /\ result' = IF loopState = "exc" THEN "raised"
                 ELSE IF script = "demo" THEN "True" ELSE "None"
    /\ pc' = "end"
    /\ UNCHANGED <<inputs, entryVars, loopVars, now, reqs, object_name, typed, loopState>>

\* finally: client.disconnect(); then return True (demo) / fall off main,
\* or the exception that is not a KeyboardInterrupt goes on
Finally ==
    /\ pc = "finally"
    /\ disconnects' = disconnects + 1
    /\ result' = IF loopState = "exc" THEN "raised"
                 ELSE IF script = "demo" THEN "True" ELSE "None"
    /\ pc' = "end"
    /\ UNCHANGED <<inputs, entryVars, loopVars, now, reqs, object_name, typed, loopState>>

(***************************************************************************)
(* mesh_import_and_place.runtime_placement_with_unrealcv.                  *)
(***************************************************************************)
\* blueprint_full_path = f"{args.output_asset_path}/{args.blueprint_name}.{args.blueprint_name}"
MipBpPath(dir, name) == dir \o <<"/">> \o name \o <<".">> \o name

\* x, y, z = map(float, args.location.split(','))
MipParse ==
    /\ pc = "mipparse"
    /\ IF TripleOk(location)
       THEN /\ pc' = "mipspawn"
            /\ UNCHANGED result
       ELSE /\ pc' = "end"
            /\ result' = "raised"
    /\ UNCHANGED <<inputs, entryVars, loopVars, placeVars>>

\* response = client.request(f'vset /objects/spawn ...'); print(...); the
\* response is not inspected
MipSpawn ==
    /\ pc = "mipspawn"
    /\ \E r \in Responses :
         reqs' = Append(reqs, Req(SpawnAtCmd(MipBpPath(asset_path, blueprint_name),
                                             ParseTriple(location)), r))
    /\ pc' = "mipsleep"
    /\ UNCHANGED <<inputs, entryVars, loopVars, now, object_name, typed, loopState,
                   disconnects, result>>

\* while True: time.sleep(1) is left by KeyboardInterrupt only:
\* print("Exiting..."); client.disconnect(); return True
MipInterrupt ==
    /\ pc = "mipsleep"
    /\ disconnects' = disconnects + 1
    /\ result' = "True"
    /\ pc' = "end"
    /\ UNCHANGED <<inputs, entryVars, loopVars, now, reqs, object_name, typed, loopState>>

(***************************************************************************)
(* find_spawn_command.test_commands.                                       *)
(***************************************************************************)
\* a request whose text has no parameter
QueryCmd(what) ==
    [verb |-> what, target |-> <<>>, name |-> <<>>, xyz |-> <<>>, text |-> <<>>]

\* f'<verb> {blueprint_path} {x} {y} {z}' with x, y, z = location.split(',')
TextCmd(what, path, fields) ==
    [verb |-> what, target |-> path, name |-> <<>>, xyz |-> <<>>, text |-> fields]

\* spawn_commands
spawn_commands ==
    LET f == Split(location, ",")
    IN  << TextCmd("vset /objects/spawn", asset_path, f),
           TextCmd("vset /object/spawn", asset_path, f),
           TextCmd("vset /actor/spawn", asset_path, f),
           TextCmd("vrun SpawnActor (bare)", asset_path, f),
           TextCmd("vset /objects/create", asset_path, f),
           TextCmd("vset /scene/spawn", asset_path, f),
           TextCmd("vspawn", asset_path, f),
           TextCmd("vrun SpawnActor", asset_path, f),
           TextCmd("vrun Spawn", asset_path, f) >>

\* the requests of test_commands in program order
FindCmds ==
    << QueryCmd("vget /unrealcv/version"),
       QueryCmd("vget /unrealcv/status"),
       QueryCmd("vget /unrealcv/help") >>
    \o spawn_commands
    \o << QueryCmd("vget /objects"),
          QueryCmd("vget /camera/0/location") >>

\* the requests so far that did not just answer 'error...'
FindEvents ==
    Cardinality({k \in 1..Len(reqs) :
                   reqs[k].out # "return" \/ ~IsError(reqs[k].resp)})

\* FindRequest that leaves the loop at the first spawn command answered
\* without error
FindRequest_StopAtSuccess ==
    /\ pc = "find"
    /\ LET k == Len(reqs) + 1
       IN  \E outcome \in {"return", "exc", "kbd"} : \E r \in Responses :
             /\ outcome # "return" => r = R_err
             /\ (outcome # "return" \/ ~IsError(r)) => FindEvents < MaxFindEvents
             /\ reqs' = Append(reqs, [cmd |-> FindCmds[k],
                                      resp |-> IF outcome = "return" THEN r ELSE <<>>,
                                      out |-> outcome])
             /\ IF outcome = "kbd" /\ k > 2
                THEN /\ pc' = "end"
                     /\ result' = "killed"
                ELSE /\ pc' = IF \/ k = Len(FindCmds)
                                 \/ (k \in 4..12 /\ outcome = "return" /\ ~IsError(r))
                              THEN "finddisc" ELSE "find"
                     /\ UNCHANGED result
    /\ UNCHANGED <<inputs, entryVars, loopVars, now, object_name, typed, loopState, disconnects>>

\* one try: client.request(...) except ...: of test_commands.  The first
\* two are guarded by a bare except, which also catches KeyboardInterrupt;
\* the others by except Exception, which lets it through
FindRequest ==
    /\ pc = "find"
    /\ LET k == Len(reqs) + 1
       IN  \E outcome \in {"return", "exc", "kbd"} : \E r \in Responses :
             /\ outcome # "return" => r = R_err
             /\ (outcome # "return" \/ ~IsError(r)) => FindEvents < MaxFindEvents
             /\ reqs' = Append(reqs, [cmd |-> FindCmds[k],
                                      resp |-> IF outcome = "return" THEN r ELSE <<>>,
                                      out |-> outcome])
             /\ IF outcome = "kbd" /\ k > 2
                THEN /\ pc' = "end"
                     /\ result' = "killed"
                ELSE /\ pc' = IF k = Len(FindCmds) THEN "finddisc" ELSE "find"
                     /\ UNCHANGED result
    /\ UNCHANGED <<inputs, entryVars, loopVars, now, object_name, typed, loopState, disconnects>>

\* client.disconnect(); print(...)
FindDisconnect ==
    /\ pc = "finddisc"
    /\ disconnects' = disconnects + 1
    /\ result' = "None"
    /\ pc' = "end"
    /\ UNCHANGED <<inputs, entryVars, loopVars, now, reqs, object_name, typed, loopState>>

Placement ==
    \/ Parse
    \/ Spawn1
    \/ Loc1
    \/ Spawn2
    \/ Loc2
    \/ Spawn3
    \/ Diag1
    \/ Diag2
    \/ Spawn4
    \/ Loc4
    \/ MainSpawn
    \/ Rot
    \/ Scale

Interactive ==
    \/ Input
    \/ InputRaises
    \/ Request
    \/ RequestRaises
    \/ Finally

OtherScripts ==
    \/ MipParse
    \/ MipSpawn
    \/ MipInterrupt
    \/ FindRequest
    \/ FindDisconnect

Next ==
    \/ ConnectLoop
    \/ Placement
    \/ Interactive
    \/ OtherScripts

Spec == Init /\ [][Next]_vars

(***************************************************************************)
(* The normalization of the blueprint path, on its own: bp_path is         *)
(* computed from the path given, and once more from its own result.        *)
(***************************************************************************)
\* the characters of the asset names enumerated
NameChars == {"B", "_", "C"}

\* the asset names: every text of 1..MaxNameLen characters
Names == UNION {[1..n -> NameChars] : n \in 1..MaxNameLen}

\* d folders: "/G/G..."
RECURSIVE Folders(_)
Folders(d) == IF d = 0 THEN <<>> ELSE <<"/", "G">> \o Folders(d - 1)

\* the blueprint paths a user gives: the package path /G/.../Name, the
\* object path /G/.../Name.Name and the class path /G/.../Name.Name_C
BlueprintPaths ==
    UNION { { Folders(d) \o <<"/">> \o n,
              Folders(d) \o <<"/">> \o n \o <<".">> \o n,
              Folders(d) \o <<"/">> \o n \o <<".">> \o n \o S_C } :
            d \in 0..MaxDepth, n \in Names }

InitNormalize ==
    /\ script \in PlaceScripts
    /\ asset_path \in BlueprintPaths
    /\ blueprint_name = <<>>
    /\ location = <<>>
    /\ rotation = <<>>
    /\ scale = <<>>
    /\ upAfter = 0
    /\ pc = "normalize"
    /\ i = 0
    /\ connected = FALSE
    /\ polls = 0
    /\ connectCalls = 0
    /\ connectFaults = 0
    /\ intr = 0
    /\ intrAt = "none"
    /\ okAttempt = 0
    /\ now = 0
    /\ reqs = <<>>
    /\ object_name = <<>>
    /\ typed = <<>>
    /\ loopState = "no"
    /\ disconnects = 0
    /\ result = "running"
    /\ args = <<>>
    /\ bp_path = <<>>
    /\ bp_again = <<>>
    /\ parsed = <<>>
    /\ engine = <<>>
    /\ retval = <<>>

\* the normalization of the script, as a function of the path
NormalizeBpPath(p) == IF script = "demo" THEN DemoBpPath(p) ELSE MainBpPath(p)

\* bp_path = asset_path; if not bp_path.endswith('_C'): ...
Normalize ==
    /\ pc = "normalize"
    /\ bp_path' = NormalizeBpPath(asset_path)
    /\ pc' = "normalize2"
    /\ UNCHANGED <<inputs, loopVars, placeVars, result, args, bp_again, parsed,
                   engine, retval>>

\* the same statements run on the path they produced
NormalizeAgain ==
    /\ pc = "normalize2"
    /\ bp_again' = NormalizeBpPath(bp_path)
    /\ pc' = "normalized"
    /\ UNCHANGED <<inputs, loopVars, placeVars, result, args, bp_path, parsed,
                   engine, retval>>

NextNormalize ==
    \/ Normalize
    \/ NormalizeAgain

SpecNormalize == InitNormalize /\ [][NextNormalize]_vars

(***************************************************************************)
(* hunyuan3d_ue5_demo as a command: parse_arguments and main, which call   *)
(* place_in_runtime.                                                       *)
(***************************************************************************)
\* the value None
None == <<"None">>

\* not x, for x a str or None
Falsy(x) == x = None \/ x = <<>>

\* choices=['import', 'place', 'full']
Actions == {"import", "place", "full"}

\* --obj_path: not given, given empty, given
S_obj == <<"m", "/", "B", ".", "o", "b", "j">>
ObjPaths == {None, <<>>, S_obj}

\* --blueprint_path: not given, given empty, given
CliBlueprintPaths == {None, <<>>, <<"/", "G", "/", "B">>}

\* the defaults of --rotation and --scale of hunyuan3d_ue5_demo
S_rot90 == <<"0", ",", "9", "0", ",", "0">>
S_scale100 ==
    <<"1", "0", "0", ",", "1", "0", "0", ",", "1", "0", "0">>

\* the answers to "Do you want to attempt runtime placement now ...? (y/n)"
L_y == <<"y">>
L_Y == <<"Y">>
L_n == <<"n">>
Answers == {L_y, L_Y, L_n}

InitCli ==
    /\ script = "demo"
    /\ args \in [action : Actions, obj_path : ObjPaths,
                 blueprint_path : CliBlueprintPaths, asset_path : {S_GameMeshes}]
    /\ asset_path = <<>>
    /\ blueprint_name = <<>>
    /\ location \in Locations
    /\ rotation = S_rot90
    /\ scale = S_scale100
    /\ upAfter = 1
    /\ pc = "args"
    /\ i = 0
    /\ connected = FALSE
    /\ polls = 0
    /\ connectCalls = 0
    /\ connectFaults = 0
    /\ intr = 0
    /\ intrAt = "none"
    /\ okAttempt = 0
    /\ now = 0
    /\ reqs = <<>>
    /\ object_name = <<>>
    /\ typed = <<>>
    /\ loopState = "no"
    /\ disconnects = 0
    /\ result = "running"
    /\ bp_path = <<>>
    /\ bp_again = <<>>
    /\ parsed = <<>>
    /\ engine = <<>>
    /\ retval = <<>>

\* ParseArguments without the test of --blueprint_path
ParseArguments_NoPlaceCheck ==
    /\ pc = "args"
    /\ IF args.action \in {"import", "full"} /\ Falsy(args.obj_path)
       THEN /\ pc' = "end"
            /\ result' = "usage"
       ELSE /\ pc' = "main"
            /\ UNCHANGED result
    /\ UNCHANGED <<inputs, loopVars, placeVars, entryVars>>

\* args = parser.parse_args(); the two validations; parser.error prints the
\* usage message and exits with status 2
ParseArguments ==
    /\ pc = "args"
    /\ IF \/ args.action \in {"import", "full"} /\ Falsy(args.obj_path)
          \/ args.action = "place" /\ Falsy(args.blueprint_path)
       THEN /\ pc' = "end"
            /\ result' = "usage"
       ELSE /\ pc' = "main"
            /\ UNCHANGED result
    /\ UNCHANGED <<inputs, loopVars, placeVars, entryVars>>

\* f"{args.asset_path}/{os.path.basename(args.obj_path).split('.')[0]}"
CliMeshPath(a) ==
    a.asset_path \o <<"/">> \o Split(BaseName(a.obj_path), ".")[1]

\* main: the branch of args.action.  'import' prints the instructions,
\* 'place' calls place_in_runtime(args.blueprint_path, ...), 'full' prints
\* the instructions and goes on to the prompt
MainAction ==
    /\ pc = "main"
    /\ CASE args.action = "import" ->
              /\ pc' = "end"
              /\ result' = "None"
              /\ UNCHANGED asset_path
         [] args.action = "place" ->
              /\ asset_path' = args.blueprint_path
              /\ pc' = "poll"
              /\ UNCHANGED result
         [] args.action = "full" ->
              /\ pc' = "prompt"
              /\ UNCHANGED <<asset_path, result>>
    /\ UNCHANGED <<script, blueprint_name, location, rotation, scale, upAfter,
                   loopVars, placeVars, entryVars>>

\* response = input(...); if response.lower() == 'y':
\*     place_in_runtime(mesh_path, ...)
MainPrompt ==
    /\ pc = "prompt"
    /\ \E answer \in Answers :
         /\ typed' = Append(typed, answer)
         /\ IF Lower(answer) = L_y
            THEN /\ asset_path' = CliMeshPath(args)
                 /\ pc' = "poll"
                 /\ UNCHANGED result
            ELSE /\ pc' = "end"
                 /\ result' = "None"
                 /\ UNCHANGED asset_path
    /\ UNCHANGED <<script, blueprint_name, location, rotation, scale, upAfter,
                   loopVars, now, reqs, object_name, loopState, disconnects,
                   entryVars>>

\* input() raises (KeyboardInterrupt, EOFError): nothing in main catches it
MainPromptRaises ==
    /\ pc = "prompt"
    /\ pc' = "end"
    /\ result' = "killed"
    /\ UNCHANGED <<inputs, loopVars, placeVars, entryVars>>

\* the steps of place_in_runtime after the connect loop
DemoPlacement ==
    \/ Parse
    \/ Spawn1
    \/ Loc1
    \/ Spawn2
    \/ Loc2
    \/ Spawn3
    \/ Diag1
    \/ Diag2
    \/ Spawn4
    \/ Loc4
    \/ Rot
    \/ Scale

NextCli ==
    \/ ParseArguments
    \/ MainAction
    \/ MainPrompt
    \/ MainPromptRaises
    \/ ConnectLoop
    \/ DemoPlacement
    \/ Interactive

SpecCli == InitCli /\ [][NextCli]_vars

(***************************************************************************)
(* The editor side.  engine holds the folders and the assets that exist in *)
(* the content browser and the steps that were attempted.                  *)
(***************************************************************************)
\* os.path.splitext(os.path.basename(p))[0]
Stem(p) ==
    LET b == BaseName(p)
        dots == {k \in 2..Len(b) : b[k] = "."}
    IN  IF dots = {} THEN b
        ELSE SubSeq(b, 1, (CHOOSE k \in dots : \A m \in dots : m <= k) - 1)

\* f"{output_asset_path}/{asset_name}"
MeshAssetPath(dir, obj) == dir \o <<"/">> \o Stem(obj)

\* f"{output_asset_path}/{blueprint_name}"
BlueprintAssetPath(dir, name) == dir \o <<"/">> \o name

\* one step of the editor attempted
Attempted(e, step) == [e EXCEPT !.steps = Append(@, step)]

(***************************************************************************)
(* mesh_import_and_place.main: import, blueprint, runtime placement.       *)
(***************************************************************************)
InitMipMain ==
    /\ script = "mip"
    /\ args = [obj_path |-> S_obj]
    /\ asset_path = S_GameMeshes
    /\ blueprint_name = S_MeshBP
    /\ location \in Locations
    /\ rotation = S_rot0
    /\ scale = S_scale1
    /\ upAfter \in {1, NeverUp}
    /\ pc = "import"
    /\ i = 0
    /\ connected = FALSE
    /\ polls = 0
    /\ connectCalls = 0
    /\ connectFaults = 0
    /\ intr = 0
    /\ intrAt = "none"
    /\ okAttempt = 0
    /\ now = 0
    /\ reqs = <<>>
    /\ object_name = <<>>
    /\ typed = <<>>
    /\ loopState = "no"
    /\ disconnects = 0
    /\ result = "running"
    /\ bp_path = <<>>
    /\ bp_again = <<>>
    /\ parsed = <<>>
    /\ engine = [dirs |-> {S_GameMeshes}, assets |-> {}, steps |-> <<>>]
    /\ retval = <<>>

\* mesh_asset_path = import_obj_to_uasset(): import_asset_tasks([task])
\* creates the asset, returns without creating it (the editor only logs a
\* failed import), or raises; the path is returned in the first two cases
MipImport ==
    /\ pc = "import"
    /\ \E outcome \in {"asset", "nothing", "raise"} :
         /\ engine' = [Attempted(engine, "import") EXCEPT !.assets =
                         IF outcome = "asset"
                         THEN @ \cup {MeshAssetPath(asset_path, args.obj_path)}
                         ELSE @]
         /\ IF outcome = "raise"
            THEN /\ pc' = "end"
                 /\ result' = "raised"
            ELSE /\ pc' = "blueprint"
                 /\ UNCHANGED result
    /\ UNCHANGED <<inputs, loopVars, placeVars, args, bp_path, bp_again, parsed,
                   retval>>

\* blueprint_path = create_blueprint_from_mesh(mesh_asset_path): the editor
\* calls return or raise; then runtime_placement_with_unrealcv() is called
MipCreateBlueprint ==
    /\ pc = "blueprint"
    /\ \E outcome \in {"return", "raise"} :
         /\ engine' = [Attempted(engine, "blueprint") EXCEPT !.assets =
                         IF outcome = "return"
                         THEN @ \cup {BlueprintAssetPath(asset_path, blueprint_name)}
                         ELSE @]
         /\ IF outcome = "raise"
            THEN /\ pc' = "end"
                 /\ result' = "raised"
            ELSE /\ pc' = "poll"
                 /\ UNCHANGED result
    /\ UNCHANGED <<inputs, loopVars, placeVars, args, bp_path, bp_again, parsed,
                   retval>>

NextMipMain ==
    \/ MipImport
    \/ MipCreateBlueprint
    \/ ConnectLoop
    \/ MipParse
    \/ MipSpawn
    \/ MipInterrupt

SpecMipMain == InitMipMain /\ [][NextMipMain]_vars

(***************************************************************************)
(* hunyuan3d_ue5_demo.import_to_ue5 (script = "ue5"), which calls          *)
(* unreal_engine_import.import_obj_to_uasset, and that function called as  *)
(* in its own usage example (script = "uei").                              *)
(***************************************************************************)
ImportScripts == {"ue5", "uei"}

S_Bobj == <<"B", ".", "o", "b", "j">>
ObjFiles == {S_obj, S_Bobj}
AssetDirs == {S_GameMeshes, <<"/", "G">>}
BlueprintNames == {S_MeshBP, <<"B">>}

\* def import_obj_to_uasset(obj_path, output_asset_path=..., blueprint_name=...)
ImportObjParams == {"obj_path", "output_asset_path", "blueprint_name"}

\* import_obj_to_uasset(obj_path, asset_path, blueprint_name, create_blueprint=True)
Ue5CallKeywords == {"create_blueprint"}

InitImport ==
    /\ script \in ImportScripts
    /\ args \in [obj_path : ObjFiles, unreal : BOOLEAN]
    /\ script = "uei" => args.unreal
    /\ asset_path \in AssetDirs
    /\ blueprint_name \in BlueprintNames
    /\ location = <<>>
    /\ rotation = <<>>
    /\ scale = <<>>
    /\ upAfter = 0
    /\ pc = script
    /\ i = 0
    /\ connected = FALSE
    /\ polls = 0
    /\ connectCalls = 0
    /\ connectFaults = 0
    /\ intr = 0
    /\ intrAt = "none"
    /\ okAttempt = 0
    /\ now = 0
    /\ reqs = <<>>
    /\ object_name = <<>>
    /\ typed = <<>>
    /\ loopState = "no"
    /\ disconnects = 0
    /\ result = "running"
    /\ bp_path = <<>>
    /\ bp_again = <<>>
    /\ parsed = <<>>
    /\ \E d \in SUBSET {asset_path} :
         engine = [dirs |-> d, assets |-> {}, steps |-> <<>>]
    /\ retval = <<>>

\* try: import unreal / except ImportError: ...; return None
Ue5ImportUnreal ==
    /\ pc = "ue5"
    /\ IF args.unreal
       THEN /\ pc' = "ue5call"
            /\ UNCHANGED retval
       ELSE /\ pc' = "end"
            /\ retval' = None
    /\ UNCHANGED <<inputs, loopVars, placeVars, result, args, bp_path, bp_again,
                   parsed, engine>>

\* try: import unreal_engine_import; mesh_path, bp_path =
\* unreal_engine_import.import_obj_to_uasset(..., create_blueprint=True).
\* A keyword that is no parameter of the function raises TypeError before
\* its body runs; except Exception: print(...); return None
Ue5Call ==
    /\ pc = "ue5call"
    /\ IF Ue5CallKeywords \subseteq ImportObjParams
       THEN /\ pc' = "uei"
            /\ UNCHANGED retval
       ELSE /\ pc' = "end"
            /\ retval' = None
    /\ UNCHANGED <<inputs, loopVars, placeVars, result, args, bp_path, bp_again,
                   parsed, engine>>

\* import_obj_to_uasset up to mesh_asset_path: the folder is made when it
\* does not exist; import_asset_tasks([task]) creates the asset, returns
\* without creating it, or raises.  An exception leaves the function; the
\* caller import_to_ue5 turns it into None
UeiImport ==
    /\ pc = "uei"
    /\ \E outcome \in {"asset", "nothing", "raise"} :
         /\ engine' = [Attempted(engine, "import") EXCEPT
                         !.dirs = @ \cup {asset_path},
                         !.assets = IF outcome = "asset"
                                    THEN @ \cup {MeshAssetPath(asset_path, args.obj_path)}
                                    ELSE @]
         /\ IF outcome = "raise"
            THEN /\ pc' = "end"
                 /\ result' = IF script = "ue5" THEN result ELSE "raised"
                 /\ retval' = IF script = "ue5" THEN None ELSE retval
            ELSE /\ pc' = "uei_bp"
                 /\ UNCHANGED <<result, retval>>
    /\ UNCHANGED <<inputs, loopVars, placeVars, args, bp_path, bp_again, parsed>>

\* blueprint_path = create_blueprint_from_mesh(...): None when the mesh
\* asset cannot be loaded, when the blueprint is not created and when an
\* editor call raises (caught inside), else the blueprint path;
\* return mesh_asset_path, blueprint_path.  The caller import_to_ue5
\* returns bp_path if it is set, else mesh_path
UeiCreateBlueprint ==
    /\ pc = "uei_bp"
    /\ \E outcome \in {"created", "none", "raise"} :
         LET mesh == MeshAssetPath(asset_path, args.obj_path)
             made == mesh \in engine.assets /\ outcome = "created"
             bp == IF made THEN BlueprintAssetPath(asset_path, blueprint_name)
                   ELSE None
         IN  /\ mesh \notin engine.assets => outcome = "none"
             /\ engine' = [Attempted(engine, "blueprint") EXCEPT !.assets =
                             IF made THEN @ \cup {bp} ELSE @]
             /\ retval' = IF script = "ue5"
                          THEN (IF ~Falsy(bp) THEN bp ELSE mesh)
                          ELSE <<mesh, bp>>
    /\ pc' = "end"
    /\ UNCHANGED <<inputs, loopVars, placeVars, result, args, bp_path, bp_again,
                   parsed>>

NextImport ==
    \/ Ue5ImportUnreal
    \/ Ue5Call
    \/ UeiImport
    \/ UeiCreateBlueprint

SpecImport == InitImport /\ [][NextImport]_vars

(***************************************************************************)
(* The parsing of a triple, on its own:                                    *)
(* a, b, c = map(float, text.split(',')).                                  *)
(***************************************************************************)
\* the characters of the fields enumerated
TokenChars == {"0", "5", "-", ".", " ", "n", "a"}

\* the fields: every text of 0..MaxTokLen characters
Tokens == UNION {[1..n -> TokenChars] : n \in 0..MaxTokLen}

\* the other fields of a text: one digit each, all different
OtherDigits == <<"3", "4", "6", "7", "8", "9">>

\* ','.join(f)
RECURSIVE Join(_)
Join(f) ==
    IF Len(f) = 0 THEN <<>>
    ELSE IF Len(f) = 1 THEN f[1]
    ELSE f[1] \o <<",">> \o Join(Tail(f))

\* the texts given as --location: 1..MaxFields fields, one of them any
\* token, the others a digit
TripleTexts ==
    { Join([j \in 1..nk[1] |-> IF j = nk[2] THEN tok ELSE <<OtherDigits[j]>>]) :
        nk \in {x \in (1..MaxFields) \X (1..MaxFields) : x[2] <= x[1]},
        tok \in Tokens }

InitTriple ==
    /\ script \in PlaceScripts
    /\ asset_path = <<>>
    /\ blueprint_name = <<>>
    /\ location \in TripleTexts
    /\ rotation = S_rot0
    /\ scale = S_scale1
    /\ upAfter = 0
    /\ pc = "triple"
    /\ i = 0
    /\ connected = FALSE
    /\ polls = 0
    /\ connectCalls = 0
    /\ connectFaults = 0
    /\ intr = 0
    /\ intrAt = "none"
    /\ okAttempt = 0
    /\ now = 0
    /\ reqs = <<>>
    /\ object_name = <<>>
    /\ typed = <<>>
    /\ loopState = "no"
    /\ disconnects = 0
    /\ result = "running"
    /\ args = <<>>
    /\ bp_path = <<>>
    /\ bp_again = <<>>
    /\ parsed = <<>>
    /\ engine = <<>>
    /\ retval = <<>>

\* x, y, z = map(float, location.split(',')): the three floats, or ValueError
ParseLocation ==
    /\ pc = "triple"
    /\ parsed' = IF TripleOk(location)
                 THEN [ok |-> TRUE, val |-> ParseTriple(location)]
                 ELSE [ok |-> FALSE, val |-> <<>>]
    /\ pc' = "tripled"
    /\ UNCHANGED <<inputs, loopVars, placeVars, result, args, bp_path, bp_again,
                   engine, retval>>

NextTriple == ParseLocation

SpecTriple == InitTriple /\ [][NextTriple]_vars

(***************************************************************************)
(* The connect loop of place_in_runtime and place_mesh_runtime.main on its *)
(* own, against transports that come up late: at the first connect(), in   *)
(* the last attempt, just after the last poll, or never.                   *)
(***************************************************************************)
InitConnect ==
    /\ script \in PlaceScripts
    /\ asset_path = <<"/", "G", "/", "B">>
    /\ blueprint_name = <<>>
    /\ location \in Locations
    /\ rotation = S_rot0
    /\ scale = S_scale1
    /\ upAfter \in {1, timeout - 1, timeout, NeverUp}
    /\ pc = "poll"
    /\ i = 0
    /\ connected = FALSE
    /\ polls = 0
    /\ connectCalls = 0
    /\ connectFaults = 0
    /\ intr = 0
    /\ intrAt = "none"
    /\ okAttempt = 0
    /\ now = 0
    /\ reqs = <<>>
    /\ object_name = <<>>
    /\ typed = <<>>
    /\ loopState = "no"
    /\ disconnects = 0
    /\ result = "running"
    /\ args = <<>>
    /\ bp_path = <<>>
    /\ bp_again = <<>>
    /\ parsed = <<>>
    /\ engine = <<>>
    /\ retval = <<>>

NextConnect == ConnectLoop

SpecConnect == InitConnect /\ [][NextConnect]_vars

(***************************************************************************)
(* Vocabulary of the properties.                                           *)
(***************************************************************************)
\* the function has returned or was left by an exception
Ended == pc = "end"

\* a spawn command built by the script itself
IsSpawnCmd(c) == c.verb \in {"vset /objects/spawn", "vrun SpawnActor"}

\* the k-th spawn candidate of place_in_runtime
IsCand(k, c) ==
    CASE k = 1 -> /\ c.verb = "vset /objects/spawn"
                  /\ c.target = DemoBpPath(asset_path)
                  /\ Len(c.name) = 2 /\ c.name[1] = "SpawnedObject_"
      [] k = 2 -> /\ c.verb = "vset /objects/spawn"
                  /\ c.target = AltBpPath(asset_path)
                  /\ Len(c.name) = 2 /\ c.name[1] = "SpawnedObject_"
      [] k = 3 -> /\ c.verb = "vrun SpawnActor"
                  /\ c.target = DemoBpPath(asset_path)
      [] k = 4 -> /\ c.verb = "vset /objects/spawn"
                  /\ c.target = <<"StaticMeshActor">>
                  /\ Len(c.name) = 2 /\ c.name[1] = "PlaceholderCube_"

IsAnyCand(e) == \E k \in 1..4 : IsCand(k, e.cmd)

\* the candidate requests made so far, in order
CandSeq == SelectSeq(reqs, IsAnyCand)

(***************************************************************************)
(* C1: place_in_runtime tries the candidates in the order normalized path, *)
(* alternative path, vrun SpawnActor, placeholder; candidate k is sent     *)
(* only if every candidate before it answered 'error...'; the first        *)
(* request made is candidate 1; and after the responses error, error, ok   *)
(* the function has made exactly three requests and returned True.         *)
(***************************************************************************)
C1_FallbackOrder ==
    script = "demo" =>
      /\ Len(CandSeq) <= 4
      /\ \A k \in 1..Len(CandSeq) :
           /\ IsCand(k, CandSeq[k].cmd)
           /\ \A j \in 1..(k - 1) : IsError(CandSeq[j].resp)
      /\ Len(reqs) >= 1 => IsCand(1, reqs[1].cmd)
      /\ Len(reqs) >= 2 /\ IsError(reqs[1].resp) => IsCand(2, reqs[2].cmd)
      /\ Len(reqs) >= 3 /\ IsError(reqs[1].resp) /\ IsError(reqs[2].resp)
           => IsCand(3, reqs[3].cmd)
      /\ ( /\ Len(reqs) >= 3
           /\ IsError(reqs[1].resp)
           /\ IsError(reqs[2].resp)
           /\ ~IsError(reqs[3].resp) )
           => /\ Len(reqs) = 3
              /\ Ended
              /\ result = "True"

C1_Witness ==
    /\ script = "demo"
    /\ Ended
    /\ result = "True"
    /\ Len(reqs) = 3
    /\ reqs[1].resp = R_err
    /\ reqs[2].resp = R_err
    /\ reqs[3].resp = R_ok
    /\ IsCand(3, reqs[3].cmd)

(***************************************************************************)
(* C2 (as claimed): in place_in_runtime, once a spawn command sent by the  *)
(* function has received a response that does not begin with 'error', the  *)
(* function sends no further spawn command.                                *)
(***************************************************************************)
C2_StopAtFirstSuccess ==
    script = "demo" =>
      \A j \in 1..Len(reqs) : \A k \in (j + 1)..Len(reqs) :
        IsSpawnCmd(reqs[j].cmd) /\ ~IsError(reqs[j].resp)
          => ~IsSpawnCmd(reqs[k].cmd)

(***************************************************************************)
(* C3 (as claimed): place_in_runtime returns False after a successful      *)
(* connect only if every spawn command it sent received 'error...', and    *)
(* when it returns after one of the four candidates received a non-error   *)
(* response, it returns True.                                              *)
(***************************************************************************)
C3_FailureOnlyIfAllError ==
    script = "demo" /\ Ended /\ connected =>
      /\ result = "False" =>
           \A k \in 1..Len(reqs) :
             IsSpawnCmd(reqs[k].cmd) => IsError(reqs[k].resp)
      /\ ( /\ result \in {"True", "False"}
           /\ \E k \in 1..Len(CandSeq) : ~IsError(CandSeq[k].resp) )
           => result = "True"

(***************************************************************************)
(* C4 (as claimed): when isconnected() reports not-connected for its first *)
(* N polls and connected afterwards, 0 <= N < 30, the loop succeeds on     *)
(* attempt N+1.                                                            *)
(***************************************************************************)
C4_SucceedsOnAttemptNPlus1 ==
    upAfter < timeout /\ okAttempt # 0 => okAttempt = upAfter + 1

(***************************************************************************)
(* C4 (amended): with N < 30 the loop does succeed, on poll N+1, and the   *)
(* attempt on which it succeeds is N + 1 - R, where R is the number of     *)
(* connect() calls that returned without raising, each of which is         *)
(* followed by a second poll within the same attempt; so it is attempt     *)
(* N+1 only when every connect() call raised, and never a later one.       *)
(***************************************************************************)
C4_SucceedsOnAttemptNPlus1MinusReturns ==
    upAfter < timeout =>
      /\ okAttempt # 0 =>
           /\ connected
           /\ polls = upAfter + 1
           /\ okAttempt = upAfter + 1 - (connectCalls - connectFaults)
           /\ okAttempt <= upAfter + 1
           /\ (okAttempt = upAfter + 1) <=> (connectFaults = connectCalls)
      /\ pc = "check" => connected
      /\ ~connected => okAttempt = 0

C4_Witness ==
    /\ upAfter = 2
    /\ connected
    /\ okAttempt = 2
    /\ connectCalls = 1
    /\ connectFaults = 0

(***************************************************************************)
(* C5: when the transport never reports connected, the loop makes exactly  *)
(* timeout = 30 attempts with exactly one connect() call each, whether or  *)
(* not connect() raises, and then the script reports failure: False from   *)
(* place_in_runtime and runtime_placement_with_unrealcv, a plain return    *)
(* from place_mesh_runtime.main and test_commands, with no request made    *)
(* and no prompt shown.                                                    *)
(***************************************************************************)
C5_ThirtyAttemptsThenFailure ==
    upAfter = NeverUp =>
      /\ ~connected
      /\ i <= timeout
      /\ pc \in {"poll", "connect", "poll2", "wait", "check", "end"}
      /\ result # "killed" =>
           connectCalls = i + (IF pc \in {"poll2", "wait"} THEN 1 ELSE 0)
      /\ pc \in {"check", "end"} /\ result # "killed" =>
           /\ i = timeout
           /\ connectCalls = timeout
      /\ Ended /\ result # "killed" =>
           /\ result = (IF script \in {"demo", "mip"} THEN "False" ELSE "None")
           /\ disconnects = 0
           /\ reqs = <<>>
           /\ typed = <<>>
           /\ loopState = "no"

C5_Witness ==
    /\ upAfter = NeverUp
    /\ Ended
    /\ result = "False"
    /\ i = timeout
    /\ connectCalls = timeout
    /\ connectFaults > 0
    /\ connectFaults < timeout

(***************************************************************************)
(* Vocabulary of the secondary commands.                                   *)
(***************************************************************************)
\* the spawn request that places the object
IsPlacementSpawn(e) ==
    IF script = "demo"
    THEN IsAnyCand(e)
    ELSE e.cmd = SpawnAtCmd(MainBpPath(asset_path), ParseTriple(location))

SpawnSucceeded ==
    \E k \in 1..Len(reqs) : IsPlacementSpawn(reqs[k]) /\ ~IsError(reqs[k].resp)

RotSent == \E k \in 1..Len(reqs) : reqs[k].cmd.verb = "rotation"

ScaleSent == \E k \in 1..Len(reqs) : reqs[k].cmd.verb = "scale"

(***************************************************************************)
(* C6 (as claimed): whenever the spawn succeeded, by whichever candidate,  *)
(* a set-rotation command is issued iff rotation differs from "0,0,0" and  *)
(* a set-scale command is issued iff scale differs from "1,1,1".           *)
(***************************************************************************)
C6_SecondaryIffNotDefault ==
    script \in PlaceScripts /\ Ended /\ SpawnSucceeded =>
      /\ RotSent <=> (rotation # S_rot0)
      /\ ScaleSent <=> (scale # S_scale1)

(***************************************************************************)
(* C7: a failing secondary command neither rolls back nor aborts the       *)
(* placement.  After the primary spawn succeeded, the requests that follow *)
(* are exactly the due secondary commands in the order location (demo),    *)
(* rotation, scale, addressed to the spawned object, whatever the          *)
(* responses to them are; nothing else is sent before the prompt; the      *)
(* interactive loop is entered; and place_in_runtime returns True.  After  *)
(* a fallback candidate succeeded, an 'error' response to its set-location *)
(* command still leads to True.                                            *)
(***************************************************************************)
PrimaryOk == Len(reqs) >= 1 /\ ~IsError(reqs[1].resp)

\* the secondary commands that are due, in the order of the code
DueSecondary ==
    (IF script = "demo"
       THEN <<ObjectCmd("location", object_name, ParseTriple(location))>>
       ELSE <<>>)
    \o (IF rotation # S_rot0
          THEN <<ObjectCmd("rotation", object_name, ParseTriple(rotation))>>
          ELSE <<>>)
    \o (IF scale # S_scale1
          THEN <<ObjectCmd("scale", object_name, ParseTriple(scale))>>
          ELSE <<>>)

C7_SecondaryFailureDoesNotAbort ==
    /\ script \in PlaceScripts /\ PrimaryOk =>
         LET due == DueSecondary
             n == IF Len(reqs) - 1 < Len(due) THEN Len(reqs) - 1 ELSE Len(due)
         IN  /\ \A k \in 1..n : reqs[k + 1].cmd = due[k]
             /\ \A k \in (Len(due) + 2)..Len(reqs) : reqs[k].cmd.verb = "raw"
             /\ pc \in {"input", "request", "finally", "end"} =>
                  /\ Len(reqs) >= Len(due) + 1
                  /\ loopState # "no"
             /\ pc \in {"loc1", "rot", "scale"} => Len(reqs) - 1 <= Len(due)
             /\ Ended /\ loopState \in {"exit", "kbd"} =>
                  result = (IF script = "demo" THEN "True" ELSE "None")
             /\ result # "False"
    /\ script = "demo" /\ Ended /\ SpawnSucceeded /\ loopState = "no" =>
         /\ result = "True"
         /\ reqs[Len(reqs)].cmd.verb \in {"location", "vrun SpawnActor"}

C7_Witness ==
    /\ script = "demo"
    /\ Ended
    /\ result = "True"
    /\ loopState = "exit"
    /\ Len(reqs) >= 4
    /\ ~IsError(reqs[1].resp)
    /\ reqs[2].cmd.verb = "location" /\ IsError(reqs[2].resp)
    /\ reqs[3].cmd.verb = "rotation" /\ IsError(reqs[3].resp)
    /\ reqs[4].cmd.verb = "scale" /\ IsError(reqs[4].resp)

(***************************************************************************)
(* Vocabulary of the interactive loop.                                     *)
(***************************************************************************)
IsRaw(e) == e.cmd.verb = "raw"

\* the texts handed to client.request by the interactive loop, in order
Forwarded ==
    LET raw == SelectSeq(reqs, IsRaw)
    IN  [k \in 1..Len(raw) |-> raw[k].cmd.target]

\* the lines typed before the last one
TypedBeforeLast == SubSeq(typed, 1, Len(typed) - 1)

(***************************************************************************)
(* C8 (as claimed): every line typed before the terminating one is         *)
(* forwarded verbatim, once, in order; the loop terminates on the first    *)
(* line equal to "exit" or on a KeyboardInterrupt; "exit" is never sent    *)
(* and nothing is sent after the loop has terminated.                      *)
(***************************************************************************)
C8_ExitLineEqualsExit ==
    LET lastIsExit == Len(typed) > 0 /\ typed[Len(typed)] = S_exit
    IN  /\ Forwarded = (IF lastIsExit \/ pc = "request"
                        THEN TypedBeforeLast ELSE typed)
        /\ \A k \in 1..Len(Forwarded) : Forwarded[k] # S_exit
        /\ (loopState = "exit") <=> lastIsExit
        /\ loopState \in {"exit", "kbd"} => pc \in {"finally", "end"}

(***************************************************************************)
(* C8 (amended): every line typed before the terminating one is forwarded  *)
(* verbatim, once, in order; the loop terminates on the first line whose   *)
(* lower-cased text equals "exit" ("EXIT" terminates it too), on a         *)
(* KeyboardInterrupt, or on another exception of input() or of the         *)
(* request; no line that is "exit" in any letter case is sent, and nothing *)
(* is sent after the loop has terminated.                                  *)
(***************************************************************************)
C8_ExitLineCaseInsensitive ==
    LET lastIsExit == Len(typed) > 0 /\ Lower(typed[Len(typed)]) = S_exit
    IN  /\ Forwarded = (IF lastIsExit \/ pc = "request"
                        THEN TypedBeforeLast ELSE typed)
        /\ \A k \in 1..Len(Forwarded) : Lower(Forwarded[k]) # S_exit
        /\ \A k \in 1..(Len(typed) - 1) : Lower(typed[k]) # S_exit
        /\ (loopState = "exit") <=> lastIsExit
        /\ loopState \in {"exit", "kbd", "exc"} => pc \in {"finally", "end"}
        /\ pc \in {"input", "request"} => loopState = "in"

C8_Witness ==
    /\ Ended
    /\ loopState = "exit"
    /\ typed = <<L_VGET, L_vget, L_EXIT>>
    /\ Forwarded = <<L_VGET, L_vget>>

(***************************************************************************)
(* C9: on every way out of the interactive loop of place_mesh_runtime.main *)
(* and place_in_runtime (the exit token, a KeyboardInterrupt at the prompt *)
(* or during a request, any other exception of input() or of the request), *)
(* client.disconnect() is called exactly once, and not before the loop is  *)
(* left.                                                                   *)
(***************************************************************************)
C9_LoopExitDisconnectsOnce ==
    loopState # "no" =>
      /\ disconnects = (IF Ended THEN 1 ELSE 0)
      /\ Ended => loopState \in {"exit", "kbd", "exc"}
      /\ loopState = "in" => pc \in {"input", "request"}

C9_Witness ==
    /\ Ended
    /\ loopState = "exc"
    /\ result = "raised"
    /\ disconnects = 1
    /\ Len(reqs) > 0
    /\ reqs[Len(reqs)].out = "exc"

(***************************************************************************)
(* C10 (as claimed): a KeyboardInterrupt delivered during the connect loop *)
(* (while polling, inside connect(), during the sleep) terminates the      *)
(* loop: once it is delivered, no further connect() call is made.          *)
(***************************************************************************)
C10_InterruptEndsConnectLoop ==
    [][intr > 0 => connectCalls' = connectCalls]_vars

(***************************************************************************)
(* Vocabulary of the normalization.                                        *)
(***************************************************************************)
\* the end of the name that starts after position k of s
NameEnd(s, k) ==
    LET stops == {m \in (k + 1)..Len(s) : s[m] \in {".", "/"}}
    IN  IF stops = {} THEN Len(s)
        ELSE (CHOOSE m \in stops : \A o \in stops : m <= o) - 1

\* the positions of s where a class specifier '.<Name>_C' starts
ClassSpecifiers(s) ==
    {k \in 1..Len(s) :
       /\ s[k] = "."
       /\ NameEnd(s, k) - k > 2
       /\ SubSeq(s, NameEnd(s, k) - 1, NameEnd(s, k)) = S_C}

(***************************************************************************)
(* C11: the normalization of the blueprint path in place_in_runtime and in *)
(* place_mesh_runtime.main.  A path that does not end with '_C' is kept as *)
(* a prefix and gets one class suffix appended: the result ends with '_C'  *)
(* and holds exactly one class specifier '.<Name>_C', which ends it.  A    *)
(* path that ends with '_C' is returned unchanged.  Normalizing the result *)
(* again returns it unchanged.                                             *)
(***************************************************************************)
C11_NormalizeIdempotent ==
    /\ pc \in {"normalize2", "normalized"} =>
         IF EndsWith(asset_path, S_C)
         THEN bp_path = asset_path
         ELSE /\ StartsWith(bp_path, asset_path)
              /\ Len(bp_path) > Len(asset_path)
              /\ EndsWith(bp_path, S_C)
              /\ Cardinality(ClassSpecifiers(bp_path)) = 1
              /\ \A k \in ClassSpecifiers(bp_path) :
                   NameEnd(bp_path, k) = Len(bp_path)
    /\ pc = "normalized" => bp_again = bp_path

C11_Witness ==
    /\ pc = "normalized"
    /\ ~EndsWith(asset_path, S_C)
    /\ Contains(asset_path, ".")
    /\ bp_path # asset_path
    /\ bp_again = bp_path

(***************************************************************************)
(* C12 (as claimed): in every script, the blueprint path carried by the    *)
(* first spawn command that is sent to the engine ends with the class      *)
(* suffix '_C'.                                                            *)
(***************************************************************************)
C12_PrimarySpawnPathHasClassSuffix ==
    \A k \in 1..Len(reqs) :
      ( /\ IsSpawnCmd(reqs[k].cmd)
        /\ \A j \in 1..(k - 1) : ~IsSpawnCmd(reqs[j].cmd) )
        => EndsWith(reqs[k].cmd.target, S_C)

(***************************************************************************)
(* C13 (as claimed): in place_in_runtime and place_mesh_runtime.main a     *)
(* malformed location, rotation or scale triple lets no exception escape,  *)
(* and a connection that had been established is disconnected before the   *)
(* script ends.                                                            *)
(***************************************************************************)
MalformedTriple ==
    ~(TripleOk(location) /\ TripleOk(rotation) /\ TripleOk(scale))

C13_MalformedTripleIsArgumentError ==
    script \in PlaceScripts /\ MalformedTriple /\ Ended =>
      /\ result # "raised"
      /\ connected => disconnects >= 1

(***************************************************************************)
(* C15 (as claimed): after a successful placement by any candidate of      *)
(* place_in_runtime (primary path, alternative path, console command or    *)
(* placeholder) the interactive loop is entered before the session is      *)
(* released.                                                               *)
(***************************************************************************)
C15_LoopEnteredBeforeRelease ==
    script = "demo" /\ SpawnSucceeded /\ disconnects > 0 => loopState # "no"

(***************************************************************************)
(* C16 (as claimed): runtime_placement_with_unrealcv returns False when    *)
(* the connect loop fails and when the response to the spawn command       *)
(* begins with 'error'; it returns True only when the spawn response is    *)
(* not an error.                                                           *)
(***************************************************************************)
C16_ReturnsWhetherPlaced ==
    script = "mip" /\ Ended /\ result \in {"True", "False"} =>
      /\ ~connected => result = "False"
      /\ (Len(reqs) >= 1 /\ IsError(reqs[1].resp)) => result = "False"
      /\ result = "True" => (Len(reqs) >= 1 /\ ~IsError(reqs[1].resp))

(***************************************************************************)
(* C14: hunyuan3d_ue5_demo.parse_arguments and main.  When the action is   *)
(* 'import' or 'full' and --obj_path is missing, or the action is 'place'  *)
(* and --blueprint_path is missing (not given, or given empty), the run    *)
(* ends with the argument error of the parser and main does nothing: no    *)
(* connection attempt, no request, no prompt.  When the flag is present    *)
(* the selected action is dispatched: 'import' prints and ends, 'place'    *)
(* enters place_in_runtime with the blueprint path, 'full' prompts and     *)
(* enters place_in_runtime with the mesh path only after the answer y.     *)
(***************************************************************************)
FlagMissing ==
    \/ args.action \in {"import", "full"} /\ args.obj_path \in {None, <<>>}
    \/ args.action = "place" /\ args.blueprint_path \in {None, <<>>}

C14_MissingFlagIsArgumentError ==
    /\ FlagMissing /\ pc # "args" =>
         /\ pc = "end"
         /\ result = "usage"
         /\ polls = 0
         /\ connectCalls = 0
         /\ reqs = <<>>
         /\ typed = <<>>
    /\ ~FlagMissing /\ pc \notin {"args", "main"} =>
         /\ result # "usage"
         /\ args.action = "import" =>
              /\ pc = "end"
              /\ result = "None"
              /\ polls = 0
              /\ typed = <<>>
         /\ args.action = "place" =>
              /\ asset_path = args.blueprint_path
              /\ typed = <<>> \/ loopState # "no"
         /\ args.action = "full" =>
              /\ pc = "prompt" \/ result = "killed" \/ Len(typed) >= 1
              /\ polls > 0 =>
                   /\ Lower(typed[1]) = L_y
                   /\ asset_path = S_GameMeshes \o <<"/", "B">>
              /\ (Len(typed) >= 1 /\ Lower(typed[1]) # L_y) =>
                   /\ pc = "end"
                   /\ result = "None"
                   /\ polls = 0

C14_Witness ==
    /\ args.action = "place"
    /\ args.blueprint_path = None
    /\ args.obj_path = S_obj
    /\ pc = "end"
    /\ result = "usage"
    /\ polls = 0

(***************************************************************************)
(* Vocabulary of the editor side.                                          *)
(***************************************************************************)
StepAttempted(step) ==
    \E k \in 1..Len(engine.steps) : engine.steps[k] = step

\* the import step was attempted and left no mesh asset behind (it raised
\* or it produced nothing)
ImportFailed ==
    /\ StepAttempted("import")
    /\ MeshAssetPath(asset_path, args.obj_path) \notin engine.assets

(***************************************************************************)
(* C17 (as claimed): in mesh_import_and_place.main a failed import (the    *)
(* editor call raises or produces no asset) is terminal: blueprint         *)
(* creation is not attempted, and no connect attempt and no spawn request  *)
(* follows.                                                                *)
(***************************************************************************)
C17_ImportFailureIsTerminal ==
    script = "mip" /\ ImportFailed =>
      /\ ~StepAttempted("blueprint")
      /\ polls = 0
      /\ connectCalls = 0
      /\ reqs = <<>>

(***************************************************************************)
(* C18 (as claimed): import_to_ue5, where the engine module is importable  *)
(* and the import and the blueprint creation of import_obj_to_uasset       *)
(* succeed, returns the path of the blueprint (the mesh path when only the *)
(* blueprint creation failed); it returns None only when the engine module *)
(* is unavailable or the import itself failed.                             *)
(***************************************************************************)
C18_ImportToUe5ReturnsBlueprint ==
    script = "ue5" /\ pc = "end" =>
      /\ retval = None => (~args.unreal \/ ImportFailed)
      /\ (args.unreal /\ ~ImportFailed) =>
           /\ StepAttempted("import")
           /\ retval \in {BlueprintAssetPath(asset_path, blueprint_name),
                          MeshAssetPath(asset_path, args.obj_path)}
           /\ (retval = BlueprintAssetPath(asset_path, blueprint_name))
                <=> (BlueprintAssetPath(asset_path, blueprint_name) \in engine.assets)

(***************************************************************************)
(* Vocabulary of the triples: the fields of a text and the number a field  *)
(* writes, read off the text itself.                                       *)
(***************************************************************************)
\* the positions of the commas, with the two ends of the text
Cuts(s) == {k \in 1..Len(s) : s[k] = ","} \cup {0, Len(s) + 1}

\* the j-th smallest cut
Cut(s, j) == CHOOSE c \in Cuts(s) : Cardinality({d \in Cuts(s) : d < c}) = j - 1

FieldCount(s) == Cardinality(Cuts(s)) - 1

\* the j-th field: the text between two neighbouring cuts
Field(s, j) == SubSeq(s, Cut(s, j) + 1, Cut(s, j + 1) - 1)

\* the field without the blanks around it and without its sign
Body(t) ==
    LET ink == {k \in 1..Len(t) : t[k] # " "}
        lo == CHOOSE k \in ink : \A m \in ink : k <= m
        hi == CHOOSE k \in ink : \A m \in ink : m <= k
        from == IF t[lo] \in {"-", "+"} THEN lo + 1 ELSE lo
    IN  IF ink = {} THEN <<>> ELSE SubSeq(t, from, hi)

\* the field writes a number: an optional sign, digits, at most one '.'
IsNumeral(t) ==
    LET b == Body(t)
    IN  /\ \E k \in 1..Len(b) : b[k] \in Digits
        /\ \A k \in 1..Len(b) : b[k] \in Digits \cup {"."}
        /\ \A j, k \in 1..Len(b) : (b[j] = "." /\ b[k] = ".") => j = k

RECURSIVE Pow10(_)
Pow10(n) == IF n = 0 THEN 1 ELSE 10 * Pow10(n - 1)

\* the number the field writes, times 10^MaxTokLen: the sum of its digits
\* at their places, from position k on
RECURSIVE PlaceSum(_, _)
PlaceSum(b, k) ==
    LET dots == {m \in 1..Len(b) : b[m] = "."}
        p == IF dots = {} THEN Len(b) + 1 ELSE CHOOSE m \in dots : TRUE
        place == IF k < p THEN p - 1 - k ELSE p - k
    IN  IF k > Len(b) THEN 0
        ELSE (IF b[k] = "." THEN 0
              ELSE DigitVal(b[k]) * Pow10(MaxTokLen + place))
             + PlaceSum(b, k + 1)

NumeralValue(t) ==
    LET neg == \E k \in 1..Len(t) :
                 t[k] = "-" /\ \A m \in 1..(k - 1) : t[m] = " "
    IN  IF neg THEN 0 - PlaceSum(Body(t), 1) ELSE PlaceSum(Body(t), 1)

(***************************************************************************)
(* C19 (as claimed): parsing a valid "x,y,z" text yields exactly three     *)
(* numbers equal, one by one and in order, to the three comma-separated    *)
(* values of the text; a text with fewer or more than three fields, or     *)
(* with a field that is not a number, fails and yields no triple.          *)
(***************************************************************************)
C19_TripleParsesToItsValues ==
    pc = "tripled" =>
      LET valid == /\ FieldCount(location) = 3
                   /\ \A j \in 1..3 : IsNumeral(Field(location, j))
      IN  /\ valid =>
               /\ parsed.ok
               /\ Len(parsed.val) = 3
               /\ \A j \in 1..3 :
                    /\ ~parsed.val[j].nan
                    /\ parsed.val[j].m * Pow10(MaxTokLen - parsed.val[j].e)
                         = NumeralValue(Field(location, j))
          /\ ~valid => ~parsed.ok

(***************************************************************************)
(* C20: in the connect loop connect() is invoked only in an attempt whose  *)
(* opening isconnected() poll returned False, once; a fault raised by      *)
(* connect() never leaves the loop: the loop goes to the wait of the same  *)
(* attempt, and after the wait the attempt is counted and the next attempt *)
(* starts if fewer than timeout = 30 attempts were made, else the loop is  *)
(* over.                                                                   *)
(***************************************************************************)
C20_ConnectFaultIsSwallowed ==
    [][ /\ connectCalls' # connectCalls =>
             /\ pc = "connect"
             /\ ~connected
             /\ polls >= 1
             /\ polls - 1 < upAfter
             /\ connectCalls = i
             /\ connectCalls' = connectCalls + 1
        /\ connectFaults' # connectFaults =>
             /\ connectCalls' # connectCalls
             /\ pc' = "wait"
             /\ result' = "running"
             /\ i' = i
        /\ (pc = "wait" /\ intr' = intr) =>
             /\ i' = i + 1
             /\ pc' = (IF i + 1 < timeout THEN "poll" ELSE "check")
             /\ result' = "running"
      ]_vars

C20_Witness ==
    /\ pc = "connect"
    /\ i >= 2
    /\ connectFaults = i
    /\ connectCalls = i
    /\ intr = 0
    /\ result = "running"
(***************************************************************************)
(* C21: in place_mesh_runtime.main a spawn response that begins with       *)
(* 'error' is terminal: the spawn command stays the only request (no       *)
(* rotation, scale or typed command follows and no other candidate is      *)
(* tried), the interactive loop is not entered, and client.disconnect()    *)
(* has been called exactly once when main returns.                         *)
(***************************************************************************)
C21_MainSpawnErrorIsTerminal ==
    (script = "main" /\ Len(reqs) >= 1 /\ IsError(reqs[1].resp)) =>
      /\ IsPlacementSpawn(reqs[1])
      /\ Len(reqs) = 1
      /\ loopState = "no"
      /\ typed = <<>>
      /\ Ended
      /\ result = "None"
      /\ disconnects = 1

C21_Witness ==
    /\ script = "main"
    /\ Ended
    /\ Len(reqs) = 1
    /\ reqs[1].cmd.verb = "vset /objects/spawn"
    /\ IsError(reqs[1].resp)
    /\ rotation # S_rot0
    /\ scale # S_scale1
    /\ disconnects = 1

(***************************************************************************)
(* C22: in every client script a request is sent only after the connect    *)
(* loop has seen isconnected() return True and before client.disconnect()  *)
(* is called: a step that sends a request starts with the connected flag   *)
(* set, a poll of the transport answered True, and no disconnect made; as  *)
(* long as the flag is not set (the connect loop is running or has failed) *)
(* no request has been sent; and a step made after a disconnect sends      *)
(* nothing.                                                                *)
(***************************************************************************)
C22_RequestsBetweenConnectAndDisconnect ==
    [][ /\ reqs' # reqs =>
             /\ connected
             /\ polls > upAfter
             /\ disconnects = 0
             /\ Len(reqs') = Len(reqs) + 1
        /\ ~connected' => reqs' = <<>>
        /\ disconnects > 0 => reqs' = reqs
      ]_vars

C22_Witness ==
    /\ Ended
    /\ connected
    /\ connectCalls = 1
    /\ Len(reqs) >= 3
    /\ disconnects = 1

(***************************************************************************)
(* C23: whenever place_in_runtime returns (True or False) after the        *)
(* connect loop succeeded and no request raised - by the interactive loop  *)
(* after method 1, after method 2, method 3 or the placeholder succeeded,  *)
(* or after every candidate failed - client.disconnect() has been called   *)
(* exactly once; before the return it has not been called.                 *)
(***************************************************************************)
C23_EveryReturnPathDisconnectsOnce ==
    (script = "demo" /\ connected /\ \A k \in 1..Len(reqs) : reqs[k].out = "return") =>
      /\ (Ended /\ result \in {"True", "False"}) => disconnects = 1
      /\ ~Ended => disconnects = 0

C23_Witness ==
    /\ script = "demo"
    /\ connected
    /\ Ended
    /\ result = "True"
    /\ Len(reqs) = 7
    /\ reqs[6].cmd.target = <<"StaticMeshActor">>
    /\ ~IsError(reqs[6].resp)
    /\ disconnects = 1

(***************************************************************************)
(* C24 (as claimed): in place_in_runtime every follow-up command           *)
(* 'vset /object/<name>/location|rotation|scale' names the object that a   *)
(* spawn command answered without error named, whatever the clock did      *)
(* between the building of the spawn command and of the follow-up.         *)
(***************************************************************************)
C24_FollowUpNamesSpawnedObject ==
    script = "demo" =>
      \A k \in 1..Len(reqs) :
        reqs[k].cmd.verb \in {"location", "rotation", "scale"} =>
          \E j \in 1..(k - 1) :
            /\ IsAnyCand(reqs[j])
            /\ ~IsError(reqs[j].resp)
            /\ reqs[j].cmd.name = reqs[k].cmd.target

(***************************************************************************)
(* C25: once connected, find_spawn_command.test_commands sends its         *)
(* requests in program order, each once: the three information queries,    *)
(* the nine spawn candidates (pairwise different) in list order, the       *)
(* scene-object query and the player-location query.  Unless a             *)
(* KeyboardInterrupt ends the script it goes through all of them whatever  *)
(* the responses are and whichever request raises an exception (they are   *)
(* caught by except Exception): it has sent all fourteen requests when it  *)
(* returns, and client.disconnect() has then been called exactly once and  *)
(* was not called before.                                                  *)
(***************************************************************************)
C25_FindSendsEveryCandidate ==
    (script = "find" /\ connected) =>
      LET cmds == FindCmds
          n == Len(reqs)
      IN  /\ n <= Len(cmds)
          /\ [k \in 1..n |-> reqs[k].cmd] = SubSeq(cmds, 1, n)
          /\ n = Len(cmds) =>
               LET cands == spawn_commands
               IN  /\ Len(cands) = 9
                   /\ [k \in 1..9 |-> reqs[3 + k].cmd] = cands
                   /\ Cardinality({cands[k] : k \in 1..9}) = 9
          /\ result # "killed" =>
               /\ Ended => (n = Len(cmds) /\ disconnects = 1 /\ result = "None")
               /\ ~Ended => (disconnects = 0 /\ pc \in {"check", "find", "finddisc"})
               /\ pc = "finddisc" <=> (n = Len(cmds) /\ ~Ended)

C25_Witness ==
    /\ script = "find"
    /\ connected
    /\ Ended
    /\ Len(reqs) = 14
    /\ reqs[4].out = "return"
    /\ ~IsError(reqs[4].resp)
    /\ reqs[7].out = "exc"
    /\ reqs[14].cmd.verb = "vget /camera/0/location"
    /\ disconnects = 1

(***************************************************************************)
(* C26 (as claimed): the blueprint path normalized by                      *)
(* hunyuan3d_ue5_demo.place_in_runtime and the one normalized by           *)
(* place_mesh_runtime.main are equal for every input path: the path that   *)
(* the running script computed is the path that either script computes,    *)
(* also for a path with a '.' class-name part and no '_C' suffix.          *)
(***************************************************************************)
C26_NormalizationsAgree ==
    pc \in {"normalize2", "normalized"} =>
      /\ bp_path = DemoBpPath(asset_path)
      /\ bp_path = MainBpPath(asset_path)

(***************************************************************************)
(* C27 (as claimed): the connect loop gives up only when the transport is  *)
(* not connected: whenever the loop is over with the connected flag still  *)
(* False, and when the script has returned its failure for that reason,    *)
(* client.isconnected() is False - also when the connection came up in the *)
(* last attempt, in a connect() that raised a fault - so no open session   *)
(* is left behind.                                                         *)
(***************************************************************************)
C27_GivesUpOnlyWhenNotConnected ==
    (~connected /\ (pc = "check" \/ (Ended /\ result \in {"False", "None"}))) =>
      ~isconnected

====
